---------------------------- MODULE Spec2Model ----------------------------
(***************************************************************************)
(* Model of the MyDumper loader of br/pkg/lightning/mydump/loader.go:      *)
(* NewMyDumpLoaderWithStore -> mdLoaderSetup.setup, i.e. listFiles (scan),  *)
(* route (name routing), the insertDB / insertTable / insertView fold and  *)
(* the two stable sorts.                                                   *)
(*                                                                         *)
(* Encodings.  A path is a positive number (every file has its own path;   *)
(* in a first load it is the 1-based position of the file in the storage   *)
(* walk); the empty path "" is 0.  A sort key is a natural number,         *)
(* compared as the code compares the key strings.  A name or a text whose  *)
(* characters matter is a sequence of one-character strings.               *)
(* The compression codec of SourceFileMeta is carried by no decision of    *)
(* the loader and is left out.                                             *)
(***************************************************************************)
EXTENDS Integers, Sequences, FiniteSets, TLC

\* ------------------------------------------------------------- bounds --
\* Longest storage walk (number of entries under the source root).
MaxWalk == 3
\* Largest MaxScanFiles that is tried (0 means no ceiling).
MaxCeil == 2

\* ------------------------------------------------------ input universe --
\* Schema names the file names of the source can carry.
Schemas == {"a", "b"}
\* (schema, table) pairs the file names of the source can carry.
TableNames == {<<"a", "t">>, <<"a", "u">>, <<"b", "t">>}
\* (sort key, byte size) of the data files of the source.
DataShapes == {<<1, 2>>, <<2, 1>>}

\* What fileRouter.Route answers for a path: nil, or a RouteResult.
NoMatch == [Type |-> "nil", Schema |-> "", Name |-> "", SortKey |-> 0, FileSize |-> 0]
Entries ==
    {NoMatch}
    \cup {[Type |-> "SourceTypeSchemaSchema", Schema |-> s, Name |-> "",
           SortKey |-> 0, FileSize |-> 0] : s \in Schemas}
    \cup {[Type |-> ty, Schema |-> t[1], Name |-> t[2], SortKey |-> 0, FileSize |-> 0] :
            ty \in {"SourceTypeTableSchema", "SourceTypeViewSchema"}, t \in TableNames}
    \cup {[Type |-> "SourceTypeSQL", Schema |-> t[1], Name |-> t[2],
           SortKey |-> d[1], FileSize |-> d[2]] : t \in TableNames, d \in DataShapes}

\* The storage trees: every walk order of at most MaxWalk entries.
Sources == UNION {[1..n -> Entries] : n \in 0..MaxWalk}

\* The table filters that are tried: admit everything, or drop schema b.
Filters == {"*.*", "!b.*"}
\* The route tables that are tried; "nil" is no [routes] section.
Routers == {"nil", "a->b", "a,b->c"}

\* filter.MatchSchema and filter.MatchTable of the configured filter.
MatchSchema(f, schema) == ~(f = "!b.*" /\ schema = "b")
MatchTable(f, schema, name) == ~(f = "!b.*" /\ schema = "b")

\* RouteTable.Route of the configured router, on names that route cleanly.
RouteTarget(r, schema, name) ==
    CASE r = "a->b" /\ schema = "a" -> <<"b", name>>
      [] r = "a,b->c" /\ schema \in {"a", "b"} -> <<"c", name>>
      [] OTHER -> <<schema, name>>

\* --------------------------------------------------------------- state --
VARIABLES
    source,                 \* the entries WalkDir yields, in walk order
    MaxScanFiles,           \* setupCfg.MaxScanFiles
    filter,                 \* loader.filter
    router,                 \* loader.router ("nil" when there is none)
    totalScannedFileCount,  \* the counter of listFiles
    dbSchemas, tableSchemas, viewSchemas, tableDatas,   \* the four buckets
    dbSchemasCap,           \* capacity of the backing array of s.dbSchemas
    arr,                    \* the slice runRoute was called with
    arrShared,              \* arr still shares its backing array with s.dbSchemas
    knownDBNames,           \* route's map: name -> [fileMeta, count]
    dbs,                    \* loader.dbs
    dbIndexMap,             \* name -> index in dbs (0-based, as in the code)
    tableIndexMap,          \* (schema, table) -> index in its database's Tables
    gerr,                   \* setup's gerr
    pc,                     \* position of the load
    idx,                    \* 0-based index of the next FileInfo of the current loop
    err,                    \* what NewMyDumpLoaderWithStore returns as error
    mdl,                    \* whether it returns the loader (TRUE) or nil (FALSE)
    paths,                  \* the path of the file WalkDir yields at each position
    load,                   \* 1 in the first load of the source, 2 in a second one
    first,                  \* loader.dbs as the first load returned it
    meta,                   \* the MDDatabaseMeta / MDTableMeta GetSchema is called on
    store,                  \* the storage GetSchema is called with
    ret                     \* what GetSchema returned and logged

vars == <<source, MaxScanFiles, filter, router, totalScannedFileCount,
          dbSchemas, tableSchemas, viewSchemas, tableDatas, dbSchemasCap,
          arr, arrShared, knownDBNames, dbs, dbIndexMap, tableIndexMap, gerr,
          pc, idx, err, mdl, paths, load, first, meta, store, ret>>

config == <<source, MaxScanFiles, filter, router>>
buckets == <<dbSchemas, tableSchemas, viewSchemas, tableDatas, dbSchemasCap>>
catalog == <<dbs, dbIndexMap, tableIndexMap>>
replay == <<paths, load, first>>
ddl == <<meta, store, ret>>

\* ------------------------------------------------------------- helpers --
\* The empty map.
EmptyMap == [x \in {} |-> 0]

\* The errors of the load: a kind and the rule the message names.
NoError == [code |-> "nil", msg |-> ""]
MkErr(code, msg) == [code |-> code, msg |-> msg]

\* SourceFileMeta of the zero FileInfo.
NoFileMeta == [Path |-> 0, Type |-> "", SortKey |-> 0, FileSize |-> 0]

\* FileInfo built by the walk callback for the entry whose path is path.
MkFileInfo(e, path) ==
    [Schema |-> e.Schema, Name |-> e.Name,
     FileMeta |-> [Path |-> path, Type |-> e.Type, SortKey |-> e.SortKey,
                   FileSize |-> e.FileSize]]

\* MDLoader.shouldSkip
shouldSkip(f, schema, name) ==
    IF name = "" THEN ~MatchSchema(f, schema) ELSE ~MatchTable(f, schema, name)

\* Capacity of a slice after append of one element to a full backing array
\* (the Go runtime doubles small slices).
GrowCap(cap) == IF cap = 0 THEN 1 ELSE 2 * cap

\* Mutant: the loader is handed back whatever the error.
ReturnsLoaderAlways(e) == TRUE

\* What NewMyDumpLoaderWithStore hands back for the error of setup:
\* the loader for nil and for ErrTooManySourceFiles, nil otherwise.
ReturnsLoader(e) == e.code \in {"nil", "ErrTooManySourceFiles"}

\* ---------------------------------------------------------- GetSchema --
\* Longest database or table name, and longest schema file text, in characters.
MaxName == 2
MaxText == 2

\* The backquote character (U+0060), the identifier quote of MySQL.
BackQuote == "BACKQUOTE"
\* The names GetSchema is tried on, made of a letter and the backquote.
Names == UNION {[1..n -> {"a", BackQuote}] : n \in 1..MaxName}
\* The statement texts a schema file can hold: white space and a letter.
Texts == UNION {[1..n -> {" ", "x"}] : n \in 0..MaxText}

\* A database or table meta whose schema FileInfo records the path p.
MkMeta(kind, db, name, p) ==
    [kind |-> kind, DB |-> db, Name |-> name,
     SchemaFile |-> [FileMeta |-> [NoFileMeta EXCEPT !.Path = p]]]
NoMeta == MkMeta("", <<>>, <<>>, 0)
Metas ==
    {MkMeta("MDDatabaseMeta", <<>>, n, p) : n \in Names, p \in 0..1}
    \cup {MkMeta("MDTableMeta", <<"a">>, n, p) : n \in Names, p \in 0..1}

\* A storage: whether its calls fail, and the one file it may hold, at path
\* 1: present or not, decodable or not, and its statement text.
MkStore(failing, present, readable, text) ==
    [failing |-> failing, Path |-> 1, present |-> present, readable |-> readable,
     text |-> text]
NoStore == MkStore(FALSE, FALSE, FALSE, <<>>)
Stores ==
    {MkStore(f, FALSE, FALSE, <<>>) : f \in BOOLEAN}
    \cup {MkStore(f, TRUE, FALSE, <<>>) : f \in BOOLEAN}
    \cup {MkStore(f, TRUE, TRUE, t) : f \in BOOLEAN, t \in Texts}

\* The errors of GetSchema: a kind, and the file and the table the message names.
NoDDLError == [code |-> "nil", path |-> 0, table |-> <<>>]
MkDDLError(code, path, table) == [code |-> code, path |-> path, table |-> table]
\* What a GetSchema call returns and logs (log.path is the Path field logged).
MkReturn(text, e, level, path) ==
    [text |-> text, err |-> e, log |-> [level |-> level, path |-> path]]
NoReturn == MkReturn(<<>>, NoDDLError, "", 0)

\* store.FileExists
FileExists(st, path) ==
    IF st.failing
    THEN [exists |-> FALSE, err |-> MkDDLError("storage", 0, <<>>)]
    ELSE [exists |-> st.present /\ path = st.Path, err |-> NoDDLError]

\* ExportStatement: the statements of the file, or the error of opening or
\* decoding it.
ExportStatement(st, sqlFile) ==
    IF st.failing \/ ~st.present \/ sqlFile.FileMeta.Path # st.Path \/ ~st.readable
    THEN [data |-> <<>>, err |-> MkDDLError("ExportStatement", 0, <<>>)]
    ELSE [data |-> st.text, err |-> NoDDLError]

\* strings.TrimSpace: the text without its leading and trailing white space.
RECURSIVE TrimSpace(_)
TrimSpace(t) ==
    IF t = <<>> THEN t
    ELSE IF Head(t) = " " THEN TrimSpace(Tail(t))
    ELSE IF t[Len(t)] = " " THEN TrimSpace(SubSeq(t, 1, Len(t) - 1))
    ELSE t

\* common.EscapeIdentifier: the name between backquotes, every backquote of
\* the name doubled.
RECURSIVE WriteMySQLIdentifier(_)
WriteMySQLIdentifier(identifier) ==
    IF identifier = <<>> THEN <<>>
    ELSE (IF Head(identifier) = BackQuote
          THEN <<BackQuote, BackQuote>> ELSE <<Head(identifier)>>)
         \o WriteMySQLIdentifier(Tail(identifier))
EscapeIdentifier(identifier) ==
    <<BackQuote>> \o WriteMySQLIdentifier(identifier) \o <<BackQuote>>

\* The statement a database without usable schema text gets.
DefaultCreateDatabase(name) ==
    <<"CREATE DATABASE IF NOT EXISTS ">> \o EscapeIdentifier(name)

\* Mutant: the default statement carries the name as it is.
MDDatabaseMeta_GetSchemaUnescaped(m, st) ==
    MkReturn(<<"CREATE DATABASE IF NOT EXISTS ">> \o m.Name, NoDDLError, "", 0)

\* MDDatabaseMeta.GetSchema
MDDatabaseMeta_GetSchema(m, st) ==
    LET path == m.SchemaFile.FileMeta.Path
        x == ExportStatement(st, m.SchemaFile)
        schemaStr == TrimSpace(x.data)
    IN IF path # 0 /\ x.err.code # "nil"
       THEN MkReturn(DefaultCreateDatabase(m.Name), NoDDLError, "Warn", path)
       ELSE IF path # 0 /\ schemaStr # <<>>
       THEN MkReturn(schemaStr, NoDDLError, "", 0)
       ELSE MkReturn(DefaultCreateDatabase(m.Name), NoDDLError, "", 0)

\* Mutant: a schema file that does not exist gives an empty statement.
MDTableMeta_GetSchemaLenient(m, st) ==
    LET schemaFilePath == m.SchemaFile.FileMeta.Path
        x == ExportStatement(st, m.SchemaFile)
    IN IF schemaFilePath = 0
       THEN MkReturn(<<>>, MkDDLError("schema file is missing", 0, <<m.DB, m.Name>>), "", 0)
       ELSE IF x.err.code # "nil"
       THEN MkReturn(<<>>, NoDDLError, "", 0)
       ELSE MkReturn(x.data, NoDDLError, "", 0)

\* MDTableMeta.GetSchema
MDTableMeta_GetSchema(m, st) ==
    LET schemaFilePath == m.SchemaFile.FileMeta.Path
        e == FileExists(st, schemaFilePath)
        x == ExportStatement(st, m.SchemaFile)
    IN IF schemaFilePath = 0
       THEN MkReturn(<<>>, MkDDLError("schema file is missing", 0, <<m.DB, m.Name>>), "", 0)
       ELSE IF e.err.code # "nil"
       THEN MkReturn(<<>>, MkDDLError("check table schema file exists error", 0, <<>>), "", 0)
       ELSE IF ~e.exists
       THEN MkReturn(<<>>, MkDDLError("schema file doesn't exist", schemaFilePath,
                                       <<m.DB, m.Name>>), "", 0)
       ELSE IF x.err.code # "nil"
       THEN MkReturn(<<>>, x.err, "Error", schemaFilePath)
       ELSE MkReturn(x.data, NoDDLError, "", 0)

\* --------------------------------------------------------------- Init --
Init ==
    /\ source \in Sources
    /\ MaxScanFiles \in 0..MaxCeil
    /\ filter \in Filters
    /\ router \in Routers
    /\ totalScannedFileCount = 0
    /\ dbSchemas = <<>> /\ tableSchemas = <<>>
    /\ viewSchemas = <<>> /\ tableDatas = <<>>
    /\ dbSchemasCap = 0
    /\ arr = <<>>
    /\ arrShared = TRUE
    /\ knownDBNames = EmptyMap
    /\ dbs = <<>>
    /\ dbIndexMap = EmptyMap
    /\ tableIndexMap = EmptyMap
    /\ gerr = NoError
    /\ pc = "listFiles"
    /\ idx = 0
    /\ err = NoError
    /\ mdl = FALSE
    /\ paths = [i \in DOMAIN source |-> i]
    /\ load = 1
    /\ first = <<>>
    /\ meta = NoMeta
    /\ store = NoStore
    /\ ret = NoReturn

\* ---------------------------------------------------------- listFiles --
\* setup returns e: NewMyDumpLoaderWithStore returns with it.
Return(e) ==
    /\ pc' = "done"
    /\ err' = e
    /\ mdl' = ReturnsLoader(e)

\* Mutant: the ceiling test lets one more entry through.
OverCeilingOffByOne(count, max) == max > 0 /\ count > max + 1

\* Mutant: the ceiling test without the "0 means no ceiling" guard.
OverCeilingNoZeroGuard(count, max) == count > max

\* The ceiling test of the walk callback, on the counter after its increment.
OverCeiling(count, max) == max > 0 /\ count > max

\* One call of the WalkDir callback, on the next entry of the walk.
Walk ==
    /\ pc = "listFiles"
    /\ totalScannedFileCount < Len(source)
    /\ LET count == totalScannedFileCount + 1
           e == source[count]
           info == MkFileInfo(e, paths[count])
       IN /\ totalScannedFileCount' = count
          /\ IF OverCeiling(count, MaxScanFiles)
             THEN \* the walk ends with ErrTooManySourceFiles; setup keeps it
                  /\ gerr' = MkErr("ErrTooManySourceFiles", "")
                  /\ pc' = "route"
                  /\ UNCHANGED buckets
             ELSE /\ UNCHANGED <<gerr, pc>>
                  /\ IF e.Type = "nil" \/ shouldSkip(filter, e.Schema, e.Name)
                     THEN UNCHANGED buckets
                     ELSE CASE e.Type = "SourceTypeSchemaSchema" ->
                                 /\ dbSchemas' = Append(dbSchemas, info)
                                 /\ dbSchemasCap' =
                                      IF Len(dbSchemas) = dbSchemasCap
                                      THEN GrowCap(dbSchemasCap) ELSE dbSchemasCap
                                 /\ UNCHANGED <<tableSchemas, viewSchemas, tableDatas>>
                            [] e.Type = "SourceTypeTableSchema" ->
                                 /\ tableSchemas' = Append(tableSchemas, info)
                                 /\ UNCHANGED <<dbSchemas, dbSchemasCap, viewSchemas, tableDatas>>
                            [] e.Type = "SourceTypeViewSchema" ->
                                 /\ viewSchemas' = Append(viewSchemas, info)
                                 /\ UNCHANGED <<dbSchemas, dbSchemasCap, tableSchemas, tableDatas>>
                            [] OTHER ->
                                 /\ tableDatas' = Append(tableDatas, info)
                                 /\ UNCHANGED <<dbSchemas, dbSchemasCap, tableSchemas, viewSchemas>>
    /\ idx' = 0
    /\ UNCHANGED <<config, replay, ddl, arr, arrShared, knownDBNames, catalog, err, mdl>>

\* WalkDir has visited every entry and returns nil.
WalkEnd ==
    /\ pc = "listFiles"
    /\ totalScannedFileCount = Len(source)
    /\ pc' = "route"
    /\ idx' = 0
    /\ UNCHANGED <<config, replay, ddl, totalScannedFileCount, buckets, arr, arrShared,
                   knownDBNames, catalog, gerr, err, mdl>>

\* The storage listing or the file router fails on the next entry: listFiles
\* returns that error and setup wraps it in ErrStorageUnknown.
WalkFail ==
    /\ pc = "listFiles"
    /\ totalScannedFileCount < Len(source)
    /\ ~OverCeiling(totalScannedFileCount + 1, MaxScanFiles)
    /\ totalScannedFileCount' = totalScannedFileCount + 1
    /\ Return(MkErr("ErrStorageUnknown", "list file failed"))
    /\ UNCHANGED <<config, replay, ddl, buckets, arr, arrShared, knownDBNames, catalog, gerr, idx>>

\* -------------------------------------------------------------- route --
\* Names of the FileInfo entries of a bucket.
SchemasOf(bucket) == {bucket[i].Schema : i \in DOMAIN bucket}

\* Number of FileInfo entries of a bucket that carry the schema name.
CountIn(bucket, name) == Cardinality({i \in DOMAIN bucket : bucket[i].Schema = name})

\* knownDBNames as the four counting loops of route leave it: the entry of a
\* name holds the file meta of its last database-schema file, and 1 plus the
\* number of table-schema, view-schema and data files of that name.
LastOf(bucket, name) ==
    bucket[CHOOSE i \in DOMAIN bucket :
              /\ bucket[i].Schema = name
              /\ \A j \in DOMAIN bucket : bucket[j].Schema = name => j <= i]
InitialKnownDBNames ==
    [name \in SchemasOf(dbSchemas) |->
        [fileMeta |-> LastOf(dbSchemas, name).FileMeta,
         count |-> 1 + CountIn(tableSchemas, name) + CountIn(viewSchemas, name)
                     + CountIn(tableDatas, name)]]

\* The counting loops index knownDBNames with a name that has no entry: the
\* map yields a nil *dbInfo and count++ dereferences it.
CountingPanics ==
    ~((SchemasOf(tableSchemas) \cup SchemasOf(viewSchemas) \cup SchemasOf(tableDatas))
        \subseteq SchemasOf(dbSchemas))

\* route up to the first runRoute call.
RouteBegin ==
    /\ pc = "route"
    /\ IF router = "nil"
       THEN /\ pc' = "insertDB"
            /\ UNCHANGED <<knownDBNames, arr, arrShared, err, mdl>>
       ELSE IF CountingPanics
       THEN /\ pc' = "done"
            /\ err' = MkErr("panic", "nil pointer dereference")
            /\ mdl' = FALSE
            /\ UNCHANGED <<knownDBNames, arr, arrShared>>
       ELSE /\ pc' = "routeDB"
            /\ knownDBNames' = InitialKnownDBNames
            /\ arr' = dbSchemas
            /\ arrShared' = TRUE
            /\ UNCHANGED <<err, mdl>>
    /\ idx' = 0
    /\ UNCHANGED <<config, replay, ddl, totalScannedFileCount, buckets, catalog, gerr>>

RoutePasses == {"routeDB", "routeTable", "routeView", "routeData"}

\* knownDBNames after one FileInfo of database rawDB was routed to targetDB.
CountAfterRoute(known, rawDB, targetDB) ==
    LET dec == [known EXCEPT ![rawDB].count = @ - 1]
    IN IF targetDB \in DOMAIN dec
       THEN [dec EXCEPT ![targetDB].count = @ + 1]
       ELSE dec @@ (targetDB :> [fileMeta |-> dec[rawDB].fileMeta, count |-> 1 + 1])

\* The FileInfo with its TableName replaced.
Renamed(info, target) == [info EXCEPT !.Schema = target[1], !.Name = target[2]]

\* One iteration of the loop of runRoute, on arr[idx].
RouteStep ==
    /\ pc \in RoutePasses
    /\ idx < Len(arr)
    /\ LET i == idx + 1
           info == arr[i]
           rawDB == info.Schema
           target == RouteTarget(router, rawDB, info.Name)
           targetDB == target[1]
           synth == targetDB # rawDB /\ targetDB \notin DOMAIN knownDBNames
           realloc == synth /\ Len(dbSchemas) = dbSchemasCap
           shared == IF pc = "routeDB" THEN arrShared /\ ~realloc ELSE FALSE
           appended ==
               IF synth
               THEN Append(dbSchemas, [Schema |-> targetDB, Name |-> "",
                                       FileMeta |-> knownDBNames[rawDB].fileMeta])
               ELSE dbSchemas
       IN /\ knownDBNames' = IF targetDB # rawDB
                             THEN CountAfterRoute(knownDBNames, rawDB, targetDB)
                             ELSE knownDBNames
          /\ dbSchemasCap' = IF realloc THEN GrowCap(dbSchemasCap) ELSE dbSchemasCap
          /\ arr' = [arr EXCEPT ![i] = Renamed(info, target)]
          /\ arrShared' = IF pc = "routeDB" THEN shared ELSE arrShared
          /\ dbSchemas' = IF shared
                          THEN [appended EXCEPT ![i] = Renamed(info, target)]
                          ELSE appended
          /\ tableSchemas' = IF pc = "routeTable" THEN arr' ELSE tableSchemas
          /\ viewSchemas' = IF pc = "routeView" THEN arr' ELSE viewSchemas
          /\ tableDatas' = IF pc = "routeData" THEN arr' ELSE tableDatas
    /\ idx' = idx + 1
    /\ UNCHANGED <<config, replay, ddl, totalScannedFileCount, catalog, gerr, pc, err, mdl>>

\* r.Route fails on arr[idx]: runRoute and route return the error and setup
\* wraps it in ErrTableRoute.
RouteFail ==
    /\ pc \in RoutePasses
    /\ idx < Len(arr)
    /\ Return(MkErr("ErrTableRoute", "route failed"))
    /\ UNCHANGED <<config, replay, ddl, totalScannedFileCount, buckets, arr, arrShared,
                   knownDBNames, catalog, gerr, idx>>

\* runRoute returns nil: route calls it on the next bucket, or goes on to
\* the removal of the schemas that were routed away.
RouteReturn ==
    /\ pc \in RoutePasses
    /\ idx = Len(arr)
    /\ pc' = CASE pc = "routeDB" -> "routeTable"
               [] pc = "routeTable" -> "routeView"
               [] pc = "routeView" -> "routeData"
               [] OTHER -> "routeRemove"
    /\ arr' = CASE pc = "routeDB" -> tableSchemas
                [] pc = "routeTable" -> viewSchemas
                [] pc = "routeView" -> tableDatas
                [] OTHER -> <<>>
    /\ idx' = 0
    /\ UNCHANGED <<config, replay, ddl, totalScannedFileCount, buckets, arrShared,
                   knownDBNames, catalog, gerr, err, mdl>>

\* Mutant: no database schema is removed after the routing.
RemainingSchemasKeepAll(bucket, known) == bucket

\* The entries of a bucket whose reference count is positive, in order.
RemainingSchemas(bucket, known) ==
    SelectSeq(bucket, LAMBDA info : known[info.Schema].count > 0)

\* The removal loop meets an entry whose reference count is negative.
MeetsNegative(bucket, known) ==
    \E i \in DOMAIN bucket : known[bucket[i].Schema].count < 0

\* The last loop of route: drop the database schemas that were routed away.
RouteRemove ==
    /\ pc = "routeRemove"
    /\ IF MeetsNegative(dbSchemas, knownDBNames)
       THEN /\ Return(MkErr("ErrTableRoute", "something wrong happened when route"))
            /\ UNCHANGED <<dbSchemas>>
       ELSE /\ dbSchemas' = RemainingSchemas(dbSchemas, knownDBNames)
            /\ pc' = "insertDB"
            /\ UNCHANGED <<err, mdl>>
    /\ idx' = 0
    /\ UNCHANGED <<config, replay, ddl, totalScannedFileCount, tableSchemas, viewSchemas,
                   tableDatas, dbSchemasCap, arr, arrShared, knownDBNames,
                   catalog, gerr>>

\* ----------------------------------------------------------- assembly --
\* The FileInfo insertTable and insertView hand to insertDB.
DBFileInfo(schema) ==
    [Schema |-> schema, Name |-> "",
     FileMeta |-> [NoFileMeta EXCEPT !.Type = "SourceTypeSchemaSchema"]]

\* The dummy FileInfo setup hands to insertTable for a data file.
DummyFileInfo(info) == [Schema |-> info.Schema, Name |-> info.Name, FileMeta |-> NoFileMeta]

\* Mutant: insertDB without the lookup in dbIndexMap.
insertDBNoIndex(c, f) ==
    [cat |-> [c EXCEPT !.dbs = Append(@, [Name |-> f.Schema, SchemaFile |-> f,
                                          Tables |-> <<>>, Views |-> <<>>])],
     index |-> Len(c.dbs), dbExists |-> FALSE]

\* mdLoaderSetup.insertDB on the catalog c = [dbs, dbIndexMap, tableIndexMap]:
\* the catalog after the call, the index of the database and dbExists.
insertDB(c, f) ==
    IF f.Schema \in DOMAIN c.dbIndexMap
    THEN [cat |-> c, index |-> c.dbIndexMap[f.Schema], dbExists |-> TRUE]
    ELSE [cat |-> [c EXCEPT !.dbIndexMap = @ @@ (f.Schema :> Len(c.dbs)),
                            !.dbs = Append(@, [Name |-> f.Schema, SchemaFile |-> f,
                                               Tables |-> <<>>, Views |-> <<>>])],
          index |-> Len(c.dbs), dbExists |-> FALSE]

\* Mutant: insertTable that does not record the new table in tableIndexMap.
insertTableNoIndex(c, fileInfo) ==
    LET d == insertDB(c, DBFileInfo(fileInfo.Schema))
        tables == d.cat.dbs[d.index + 1].Tables
    IN [cat |-> [d.cat EXCEPT
                   !.dbs[d.index + 1].Tables =
                       Append(@, [DB |-> fileInfo.Schema, Name |-> fileInfo.Name,
                                  SchemaFile |-> fileInfo, DataFiles |-> <<>>,
                                  TotalSize |-> 0])],
        db |-> d.index, table |-> Len(tables),
        dbExists |-> d.dbExists, tableExists |-> FALSE]

\* mdLoaderSetup.insertTable: the catalog after the call, where the table is
\* (database index, table index, both 0-based), dbExists and tableExists.
insertTable(c, fileInfo) ==
    LET d == insertDB(c, DBFileInfo(fileInfo.Schema))
        key == <<fileInfo.Schema, fileInfo.Name>>
        tables == d.cat.dbs[d.index + 1].Tables
    IN IF key \in DOMAIN d.cat.tableIndexMap
       THEN [cat |-> d.cat, db |-> d.index, table |-> d.cat.tableIndexMap[key],
             dbExists |-> d.dbExists, tableExists |-> TRUE]
       ELSE [cat |-> [d.cat EXCEPT
                        !.tableIndexMap = @ @@ (key :> Len(tables)),
                        !.dbs[d.index + 1].Tables =
                            Append(@, [DB |-> fileInfo.Schema, Name |-> fileInfo.Name,
                                       SchemaFile |-> fileInfo, DataFiles |-> <<>>,
                                       TotalSize |-> 0])],
             db |-> d.index, table |-> Len(tables),
             dbExists |-> d.dbExists, tableExists |-> FALSE]

\* Mutant: insertView that reports every view as hosted and drops the
\* views whose table is unknown.
insertViewLenient(c, fileInfo) ==
    LET d == insertDB(c, DBFileInfo(fileInfo.Schema))
    IN [cat |-> d.cat, dbExists |-> d.dbExists, tableExists |-> TRUE]

\* mdLoaderSetup.insertView: the catalog after the call, dbExists and
\* tableExists (whether tableIndexMap knows the view's table).
insertView(c, fileInfo) ==
    LET d == insertDB(c, DBFileInfo(fileInfo.Schema))
        ok == <<fileInfo.Schema, fileInfo.Name>> \in DOMAIN d.cat.tableIndexMap
    IN [cat |-> IF ok
                THEN [d.cat EXCEPT !.dbs[d.index + 1].Views =
                        Append(@, [DB |-> fileInfo.Schema, Name |-> fileInfo.Name,
                                   SchemaFile |-> fileInfo, DataFiles |-> <<>>,
                                   TotalSize |-> 0])]
                ELSE d.cat,
        dbExists |-> d.dbExists, tableExists |-> ok]

\* Mutant: the data file is appended, its size is not added.
appendDataFileNoSize(c, fileInfo) ==
    LET t == insertTable(c, DummyFileInfo(fileInfo))
    IN [t.cat EXCEPT
          !.dbs[t.db + 1].Tables[t.table + 1].DataFiles = Append(@, fileInfo)]

\* Mutant: the data file replaces the list of its table.
appendDataFileOverwrite(c, fileInfo) ==
    LET t == insertTable(c, DummyFileInfo(fileInfo))
    IN [t.cat EXCEPT
          !.dbs[t.db + 1].Tables[t.table + 1].DataFiles = <<fileInfo>>,
          !.dbs[t.db + 1].Tables[t.table + 1].TotalSize = @ + fileInfo.FileMeta.FileSize]

\* The body of the data-file loop of setup: upsert the table, append the file
\* and add its size.
appendDataFile(c, fileInfo) ==
    LET t == insertTable(c, DummyFileInfo(fileInfo))
    IN [t.cat EXCEPT
          !.dbs[t.db + 1].Tables[t.table + 1].DataFiles = Append(@, fileInfo),
          !.dbs[t.db + 1].Tables[t.table + 1].TotalSize = @ + fileInfo.FileMeta.FileSize]

Cat == [dbs |-> dbs, dbIndexMap |-> dbIndexMap, tableIndexMap |-> tableIndexMap]
SetCat(c) ==
    /\ dbs' = c.dbs
    /\ dbIndexMap' = c.dbIndexMap
    /\ tableIndexMap' = c.tableIndexMap

\* Mutant: a duplicate is an error with or without a router.
DuplicateIsErrorAlways(exists, r) == exists

\* A duplicate is an error only when no router is configured.
DuplicateIsError(exists, r) == exists /\ r = "nil"

\* One iteration of the database-schema loop of setup.
InsertDBStep ==
    /\ pc = "insertDB"
    /\ idx < Len(dbSchemas)
    /\ LET r == insertDB(Cat, dbSchemas[idx + 1])
       IN IF DuplicateIsError(r.dbExists, router)
          THEN /\ Return(MkErr("ErrInvalidSchemaFile", "duplicated database schema"))
               /\ UNCHANGED <<catalog, idx>>
          ELSE /\ SetCat(r.cat)
               /\ idx' = idx + 1
               /\ UNCHANGED <<pc, err, mdl>>
    /\ UNCHANGED <<config, replay, ddl, totalScannedFileCount, buckets, arr, arrShared,
                   knownDBNames, gerr>>

\* One iteration of the table-schema loop of setup.
InsertTableStep ==
    /\ pc = "insertTable"
    /\ idx < Len(tableSchemas)
    /\ LET r == insertTable(Cat, tableSchemas[idx + 1])
       IN IF DuplicateIsError(r.tableExists, router)
          THEN /\ Return(MkErr("ErrInvalidSchemaFile", "duplicated table schema"))
               /\ SetCat(r.cat)
               /\ UNCHANGED idx
          ELSE /\ SetCat(r.cat)
               /\ idx' = idx + 1
               /\ UNCHANGED <<pc, err, mdl>>
    /\ UNCHANGED <<config, replay, ddl, totalScannedFileCount, buckets, arr, arrShared,
                   knownDBNames, gerr>>

\* One iteration of the view-schema loop of setup.
InsertViewStep ==
    /\ pc = "insertView"
    /\ idx < Len(viewSchemas)
    /\ LET r == insertView(Cat, viewSchemas[idx + 1])
       IN /\ SetCat(r.cat)
          /\ IF ~r.tableExists
             THEN /\ Return(MkErr("ErrInvalidSchemaFile", "miss host table schema for view"))
                  /\ UNCHANGED idx
             ELSE /\ idx' = idx + 1
                  /\ UNCHANGED <<pc, err, mdl>>
    /\ UNCHANGED <<config, replay, ddl, totalScannedFileCount, buckets, arr, arrShared,
                   knownDBNames, gerr>>

\* One iteration of the data-file loop of setup.
InsertDataStep ==
    /\ pc = "insertData"
    /\ idx < Len(tableDatas)
    /\ SetCat(appendDataFile(Cat, tableDatas[idx + 1]))
    /\ idx' = idx + 1
    /\ UNCHANGED <<config, replay, ddl, totalScannedFileCount, buckets, arr, arrShared,
                   knownDBNames, gerr, pc, err, mdl>>

\* A loop of setup is over: go on to the next one.
NextLoop ==
    /\ \/ pc = "insertDB" /\ idx = Len(dbSchemas) /\ pc' = "insertTable"
       \/ pc = "insertTable" /\ idx = Len(tableSchemas) /\ pc' = "insertView"
       \/ pc = "insertView" /\ idx = Len(viewSchemas) /\ pc' = "insertData"
    /\ idx' = 0
    /\ UNCHANGED <<config, replay, ddl, totalScannedFileCount, buckets, arr, arrShared,
                   knownDBNames, catalog, gerr, err, mdl>>

\* --------------------------------------------------------------- sorts --
\* sort.SliceStable of s, whose element i has the key keys[i]: element i goes
\* behind the elements of a smaller key and behind the earlier elements of
\* the same key.
SliceStable(s, keys) ==
    LET n == Len(s)
        rank(i) == 1 + Cardinality({j \in 1..n :
                        \/ keys[j] < keys[i]
                        \/ keys[j] = keys[i] /\ j < i})
    IN [p \in 1..n |-> s[CHOOSE i \in 1..n : rank(i) = p]]

\* Mutant: a sort by TotalSize that puts the later of two equal tables first.
SortTablesTiesReversed(tables) ==
    LET n == Len(tables)
        rank(i) == 1 + Cardinality({j \in 1..n :
                        \/ tables[j].TotalSize < tables[i].TotalSize
                        \/ tables[j].TotalSize = tables[i].TotalSize /\ j > i})
    IN [p \in 1..n |-> tables[CHOOSE i \in 1..n : rank(i) = p]]

\* Mutant: the tables are left in insertion order.
SortTablesSkipped(tables) == tables

\* The sort of a database's tables by TotalSize.
SortTables(tables) ==
    SliceStable(tables, [i \in DOMAIN tables |-> tables[i].TotalSize])

\* Mutant: the data files are left in walk order.
SortDataFilesSkipped(files) == files

\* The sort of a table's data files by sort key.
SortDataFiles(files) ==
    SliceStable(files, [i \in DOMAIN files |-> files[i].FileMeta.SortKey])

\* The last loop of setup, over loader.dbs.
SortedDBs(d) ==
    [i \in DOMAIN d |->
        [d[i] EXCEPT !.Tables =
            LET ts == SortTables(d[i].Tables)
            IN [k \in DOMAIN ts |-> [ts[k] EXCEPT !.DataFiles = SortDataFiles(@)]]]]

\* The data-file loop is over: setup sorts and returns gerr.
Finish ==
    /\ pc = "insertData"
    /\ idx = Len(tableDatas)
    /\ dbs' = SortedDBs(dbs)
    /\ Return(gerr)
    /\ UNCHANGED <<config, replay, ddl, totalScannedFileCount, buckets, arr, arrShared,
                   knownDBNames, dbIndexMap, tableIndexMap, gerr, idx>>

Next ==
    \/ Walk \/ WalkEnd \/ WalkFail
    \/ RouteBegin \/ RouteStep \/ RouteFail \/ RouteReturn \/ RouteRemove
    \/ InsertDBStep \/ InsertTableStep \/ InsertViewStep \/ InsertDataStep
    \/ NextLoop \/ Finish

Spec == Init /\ [][Next]_vars

\* ------------------------------------------------------- a second load --
\* NewMyDumpLoaderWithStore is called again, with the same configuration, on
\* the same files: the walk may yield them in another order.  The catalog of
\* the first load is kept for comparison.
Reload ==
    /\ pc = "done" /\ load = 1
    /\ mdl /\ err.code = "nil"
    /\ \E p \in Permutations(DOMAIN source) :
          /\ source' = [i \in DOMAIN source |-> source[p[i]]]
          /\ paths' = [i \in DOMAIN source |-> paths[p[i]]]
    /\ first' = dbs
    /\ load' = 2
    /\ totalScannedFileCount' = 0
    /\ dbSchemas' = <<>> /\ tableSchemas' = <<>>
    /\ viewSchemas' = <<>> /\ tableDatas' = <<>>
    /\ dbSchemasCap' = 0
    /\ arr' = <<>>
    /\ arrShared' = TRUE
    /\ knownDBNames' = EmptyMap
    /\ dbs' = <<>>
    /\ dbIndexMap' = EmptyMap
    /\ tableIndexMap' = EmptyMap
    /\ gerr' = NoError
    /\ pc' = "listFiles"
    /\ idx' = 0
    /\ err' = NoError
    /\ mdl' = FALSE
    /\ UNCHANGED <<MaxScanFiles, filter, router, ddl>>

\* Two loads of one source without a ceiling (the ceiling makes the admitted
\* files depend on the walk order).
InitTwice == Init /\ MaxScanFiles = 0
NextTwice == Next \/ Reload
SpecTwice == InitTwice /\ [][NextTwice]_vars

\* ------------------------------------------------- calls of GetSchema --
\* A GetSchema call on a meta and a storage, outside any load.
InitDDL ==
    /\ source = <<>> /\ paths = <<>>
    /\ MaxScanFiles = 0
    /\ filter = "*.*"
    /\ router = "nil"
    /\ totalScannedFileCount = 0
    /\ dbSchemas = <<>> /\ tableSchemas = <<>>
    /\ viewSchemas = <<>> /\ tableDatas = <<>>
    /\ dbSchemasCap = 0
    /\ arr = <<>>
    /\ arrShared = TRUE
    /\ knownDBNames = EmptyMap
    /\ dbs = <<>>
    /\ dbIndexMap = EmptyMap
    /\ tableIndexMap = EmptyMap
    /\ gerr = NoError
    /\ idx = 0
    /\ err = NoError
    /\ mdl = FALSE
    /\ load = 1
    /\ first = <<>>
    /\ pc = "GetSchema"
    /\ meta \in Metas
    /\ store \in Stores
    /\ ret = NoReturn

loadState == <<config, replay, totalScannedFileCount, buckets, arr, arrShared,
               knownDBNames, catalog, gerr, idx, err, mdl>>

\* m.GetSchema(ctx, store) on a database meta.
DatabaseGetSchema ==
    /\ pc = "GetSchema"
    /\ meta.kind = "MDDatabaseMeta"
    /\ ret' = MDDatabaseMeta_GetSchema(meta, store)
    /\ pc' = "returned"
    /\ UNCHANGED <<loadState, meta, store>>

\* m.GetSchema(ctx, store) on a table meta.
TableGetSchema ==
    /\ pc = "GetSchema"
    /\ meta.kind = "MDTableMeta"
    /\ ret' = MDTableMeta_GetSchema(meta, store)
    /\ pc' = "returned"
    /\ UNCHANGED <<loadState, meta, store>>

NextDDL == DatabaseGetSchema \/ TableGetSchema
SpecDDL == InitDDL /\ [][NextDDL]_vars

\* ------------------------------------------------------- observations --
Done == pc = "done"

\* Entry i of the source is accepted by the Classifier and admitted by the Filter.
Admitted(i) ==
    /\ source[i].Type # "nil"
    /\ ~shouldSkip(filter, source[i].Schema, source[i].Name)

\* The positions of the walk whose callback ran to its end (no ceiling abort).
Visited ==
    {i \in 1..totalScannedFileCount : MaxScanFiles = 0 \/ i <= MaxScanFiles}

\* The positions whose FileInfo the scan put into a bucket.
Bucketed == {i \in Visited : Admitted(i)}

\* The load got past listFiles and route (it reached the assembly).
Assembled == pc \notin {"listFiles", "route", "routeRemove"} \cup RoutePasses
             /\ err.code \notin {"ErrStorageUnknown", "ErrTableRoute", "panic"}

\* The paths of the source files a catalog refers to.
PathsOfTables(ts) ==
    {ts[k].SchemaFile.FileMeta.Path : k \in DOMAIN ts}
    \cup UNION {{ts[k].DataFiles[n].FileMeta.Path : n \in DOMAIN ts[k].DataFiles} :
                  k \in DOMAIN ts}
CatalogPaths ==
    (UNION {{dbs[i].SchemaFile.FileMeta.Path} \cup PathsOfTables(dbs[i].Tables)
              \cup PathsOfTables(dbs[i].Views) : i \in DOMAIN dbs}) \ {0}

BucketPaths(bucket) == {bucket[i].FileMeta.Path : i \in DOMAIN bucket}

TooMany == MkErr("ErrTooManySourceFiles", "")
DuplicateMsgs == {"duplicated database schema", "duplicated table schema"}
OrphanMsg == "miss host table schema for view"

\* Some FileInfo of the bucket carries the (schema, table) of info.
HasFileFor(bucket, info) ==
    \E i \in DOMAIN bucket : bucket[i].Schema = info.Schema /\ bucket[i].Name = info.Name

\* Two FileInfo of the bucket carry the same (schema, table).
HasDuplicate(bucket) ==
    \E i, j \in DOMAIN bucket :
        i < j /\ bucket[i].Schema = bucket[j].Schema /\ bucket[i].Name = bucket[j].Name

\* ---------------------------------------------------------------- C1 --
\* C1 as stated: with N classifiable files in the source and a ceiling K,
\* 1 <= K < N, a load that meets no storage or router failure returns the
\* too-many-files error and a catalog of more than 0, at most K and fewer
\* than N classified files.
C1_AsStated ==
    LET N == Cardinality({i \in DOMAIN source : source[i].Type # "nil"})
        n == Cardinality(CatalogPaths)
    IN (/\ Done
        /\ MaxScanFiles >= 1 /\ MaxScanFiles < N
        /\ err.code \notin {"ErrStorageUnknown", "panic"}
        /\ err.msg # "route failed")
       => (err = TooMany /\ mdl /\ n > 0 /\ n <= MaxScanFiles /\ n < N)

\* C1, amended: when the walk has more than K >= 1 entries the scan always
\* ends with the too-many-files condition and the load never ends without
\* an error; whenever the load returns the too-many-files error it returns a
\* catalog with it, whose files are among the first K entries of the walk
\* (at most K, fewer than the N of the source), and which is not empty when
\* one of those K entries was classified and admitted.
C1_CeilingEnforced ==
    (MaxScanFiles >= 1 /\ Len(source) > MaxScanFiles) =>
        /\ (pc # "listFiles" /\ err.code # "ErrStorageUnknown") => gerr = TooMany
        /\ Done => /\ err # NoError
                   /\ err = TooMany =>
                        /\ mdl
                        /\ CatalogPaths \subseteq 1..MaxScanFiles
                        /\ Cardinality(CatalogPaths) < Len(source)
                        /\ Bucketed # {} => CatalogPaths # {}

\* A load that returned the too-many-files error with a non-empty catalog.
C1_Witness ==
    /\ Done /\ err = TooMany /\ mdl
    /\ MaxScanFiles >= 1 /\ Len(source) > MaxScanFiles
    /\ CatalogPaths # {}

\* ---------------------------------------------------------------- C2 --
\* C2 as stated: the walk aborts with too-many-source-files exactly when the
\* number of entries the Classifier accepted and the Filter admitted exceeds
\* the ceiling.
C2_AsStated ==
    (pc # "listFiles" /\ err.code # "ErrStorageUnknown") =>
        (gerr = TooMany <=>
            /\ MaxScanFiles > 0
            /\ Cardinality({i \in DOMAIN source : Admitted(i)}) > MaxScanFiles)

\* C2, amended: the ceiling counts every entry the walk visits, also those
\* the Classifier declines or the Filter rejects: the walk aborts exactly
\* when the number of entries of the walk exceeds a positive ceiling, a
\* ceiling of 0 never aborts it, and the buckets then hold the admitted
\* entries among the first K visited.
C2_CeilingCountsVisited ==
    (pc # "listFiles" /\ err.code # "ErrStorageUnknown") =>
        /\ gerr = TooMany <=> (MaxScanFiles > 0 /\ Len(source) > MaxScanFiles)
        /\ gerr = TooMany => totalScannedFileCount = MaxScanFiles + 1
        /\ gerr # TooMany => totalScannedFileCount = Len(source)
        /\ pc = "route" =>
             Len(dbSchemas) + Len(tableSchemas) + Len(viewSchemas) + Len(tableDatas)
               = Cardinality(Bucketed)

\* The walk was aborted although an entry below the ceiling was declined or
\* rejected: that entry counted.
C2_Witness ==
    /\ pc = "route" /\ gerr = TooMany
    /\ \E i \in 1..MaxScanFiles : ~Admitted(i)

\* ---------------------------------------------------------------- C3 --
\* C3: the load returns a catalog exactly when it returns no error or the
\* too-many-files error; the catalog returned with the too-many-files error
\* is built from the buckets of the aborted scan; an error that follows the
\* ceiling error leaves no catalog.
C3_PartialResultProtocol ==
    Done =>
        /\ mdl <=> err \in {NoError, TooMany}
        /\ err = TooMany <=> (gerr = TooMany /\ mdl)
        /\ (gerr = TooMany /\ err # TooMany) => ~mdl
        /\ mdl => /\ CatalogPaths \subseteq
                        BucketPaths(dbSchemas) \cup BucketPaths(tableSchemas)
                          \cup BucketPaths(viewSchemas) \cup BucketPaths(tableDatas)
                  /\ BucketPaths(tableDatas) \cup BucketPaths(viewSchemas)
                        \subseteq CatalogPaths

\* The ceiling was exceeded, the assembly then failed: no catalog.
C3_Witness ==
    /\ Done /\ gerr = TooMany
    /\ err.code = "ErrInvalidSchemaFile" /\ ~mdl

\* ---------------------------------------------------------------- C4 --
\* C4: in every returned catalog the tables of every database are in
\* ascending order of TotalSize.
C4_SizeOrdering ==
    (Done /\ mdl) =>
        \A d \in DOMAIN dbs : \A i \in 1..(Len(dbs[d].Tables) - 1) :
            dbs[d].Tables[i].TotalSize <= dbs[d].Tables[i + 1].TotalSize

\* A returned catalog in which the sort moved a smaller table in front of a
\* table that was inserted before it.
C4_Witness ==
    /\ Done /\ mdl
    /\ \E d \in DOMAIN dbs : \E i \in 1..(Len(dbs[d].Tables) - 1) :
         LET t == dbs[d].Tables[i]
             u == dbs[d].Tables[i + 1]
         IN /\ t.TotalSize < u.TotalSize
            /\ tableIndexMap[<<t.DB, t.Name>>] > tableIndexMap[<<u.DB, u.Name>>]

\* ---------------------------------------------------------------- C5 --
\* C5: in every returned catalog the data files of every table are in
\* ascending order of sort key.
C5_SortKeyOrdering ==
    (Done /\ mdl) =>
        \A d \in DOMAIN dbs : \A k \in DOMAIN dbs[d].Tables :
            LET files == dbs[d].Tables[k].DataFiles
            IN \A i \in 1..(Len(files) - 1) :
                 files[i].FileMeta.SortKey <= files[i + 1].FileMeta.SortKey

\* A returned catalog in which the sort moved a data file in front of one
\* the walk met earlier.
C5_Witness ==
    /\ Done /\ mdl
    /\ \E d \in DOMAIN dbs : \E k \in DOMAIN dbs[d].Tables :
         LET files == dbs[d].Tables[k].DataFiles
         IN \E i \in 1..(Len(files) - 1) :
              /\ files[i].FileMeta.SortKey < files[i + 1].FileMeta.SortKey
              /\ files[i].FileMeta.Path > files[i + 1].FileMeta.Path

\* ---------------------------------------------------------------- C6 --
\* A view-schema file of the buckets whose (schema, table) has neither a
\* table-schema file nor a data file.
OrphanViews ==
    {i \in DOMAIN viewSchemas :
        /\ ~HasFileFor(tableSchemas, viewSchemas[i])
        /\ ~HasFileFor(tableDatas, viewSchemas[i])}

\* C6: a load whose routed buckets hold an orphan view fails with the
\* invalid-schema-file error and returns no catalog; with a router the error
\* is the orphan-view one, without a router a duplicate schema file met
\* earlier in the assembly raises the same error kind first.
C6_OrphanViewRejected ==
    (Done /\ Assembled /\ OrphanViews # {}) =>
        /\ err.code = "ErrInvalidSchemaFile"
        /\ ~mdl
        /\ err.msg = OrphanMsg \/ (router = "nil" /\ err.msg \in DuplicateMsgs)

\* A load that failed on an orphan view.
C6_Witness ==
    /\ Done /\ err.msg = OrphanMsg /\ ~mdl
    /\ (idx + 1) \in OrphanViews

\* ---------------------------------------------------------------- C7 --
\* The view-schema file the view loop stopped at.
OffendingView == viewSchemas[idx + 1]

\* C7 as stated: a view is rejected as an orphan only if its table has
\* neither a table-schema file nor a data file.
C7_AsStated ==
    (Done /\ err.msg = OrphanMsg) =>
        /\ ~HasFileFor(tableSchemas, OffendingView)
        /\ ~HasFileFor(tableDatas, OffendingView)

\* C7, amended: a view is rejected as an orphan exactly when its (schema,
\* table) has no table-schema file; the data files are inserted after the
\* views, so a view whose table has data files only is rejected too, and a
\* view of every returned catalog has a table-schema file and is in the view
\* list of its database.
C7_ViewNeedsTableSchema ==
    /\ (Done /\ err.msg = OrphanMsg) => ~HasFileFor(tableSchemas, OffendingView)
    /\ (Done /\ Assembled /\ \E i \in DOMAIN viewSchemas :
                                ~HasFileFor(tableSchemas, viewSchemas[i]))
          => (err.code = "ErrInvalidSchemaFile" /\ ~mdl)
    /\ (Done /\ mdl) =>
          \A i \in DOMAIN viewSchemas :
             /\ HasFileFor(tableSchemas, viewSchemas[i])
             /\ \E d \in DOMAIN dbs :
                  /\ dbs[d].Name = viewSchemas[i].Schema
                  /\ \E k \in DOMAIN dbs[d].Views :
                       dbs[d].Views[k].SchemaFile = viewSchemas[i]

\* A view whose table has a data file and no table-schema file was rejected.
C7_Witness ==
    /\ Done /\ err.msg = OrphanMsg
    /\ HasFileFor(tableDatas, OffendingView)
    /\ ~HasFileFor(tableSchemas, OffendingView)

\* ---------------------------------------------------------------- C8 --
\* C8: without a router, a load whose buckets hold two database-schema files
\* of one name or two table-schema files of one (schema, table) fails with
\* the invalid-schema-file error and returns no catalog; with a router the
\* duplicate-schema error is never raised.
C8_DuplicatePolicy ==
    Done =>
        /\ (Assembled /\ router = "nil"
              /\ (HasDuplicate(dbSchemas) \/ HasDuplicate(tableSchemas)))
             => (err.code = "ErrInvalidSchemaFile" /\ ~mdl)
        /\ router # "nil" => err.msg \notin DuplicateMsgs
        /\ err.msg = "duplicated database schema" => HasDuplicate(dbSchemas)
        /\ err.msg = "duplicated table schema" => HasDuplicate(tableSchemas)

\* A load without router that failed on a duplicate table-schema file.
C8_Witness ==
    /\ Done /\ router = "nil" /\ ~mdl
    /\ err.msg = "duplicated table schema"
    /\ HasDuplicate(tableSchemas)

\* ---------------------------------------------------------------- C9 --
\* The names of the database-schema files the scan put into its bucket.
ScannedDBs == {i \in Bucketed : source[i].Type = "SourceTypeSchemaSchema"}

\* The names two database-schema files of different names are routed to.
MergeTargets ==
    {RouteTarget(router, source[i].Schema, "")[1] : i \in
        {i \in ScannedDBs : \E j \in ScannedDBs :
            /\ source[i].Schema # source[j].Schema
            /\ RouteTarget(router, source[i].Schema, "")
                 = RouteTarget(router, source[j].Schema, "")}}

\* C9: when two database-schema files of different names are routed to one
\* name, no duplicate-schema error is raised, a returned catalog has exactly
\* one database of that name, and a load of database-schema files of
\* pairwise different names that meets no storage or router failure
\* returns a catalog.
C9_RoutingMerge ==
    (Done /\ router # "nil" /\ MergeTargets # {}) =>
        /\ err.msg \notin DuplicateMsgs
        /\ mdl => \A t \in MergeTargets :
                     Cardinality({d \in DOMAIN dbs : dbs[d].Name = t}) = 1
        /\ (/\ tableSchemas = <<>> /\ viewSchemas = <<>> /\ tableDatas = <<>>
            /\ \A i, j \in ScannedDBs : source[i].Schema = source[j].Schema => i = j
            /\ err.code # "ErrStorageUnknown" /\ err.msg # "route failed")
           => mdl

\* A load that merged two database-schema files and succeeded.
C9_Witness ==
    /\ Done /\ router # "nil" /\ err = NoError /\ mdl
    /\ MergeTargets # {}
    /\ \A t \in MergeTargets : Cardinality({d \in DOMAIN dbs : dbs[d].Name = t}) = 1

\* --------------------------------------------------------------- C10 --
\* C10: a reference count of knownDBNames that is negative ends the load
\* with the routing error and without a catalog.
C10_NegativeCountSurfaces ==
    (Done /\ \E n \in DOMAIN knownDBNames : knownDBNames[n].count < 0) =>
        (err.code = "ErrTableRoute" /\ ~mdl)

\* --------------------------------------------------------------- C15 --
\* The order in which the assembly refers to tables: the table-schema
\* bucket, then the data-file bucket.
RefOrder == tableSchemas \o tableDatas

\* The position of the first reference to the table t.
FirstRef(t) ==
    CHOOSE i \in DOMAIN RefOrder :
        /\ RefOrder[i].Schema = t.DB /\ RefOrder[i].Name = t.Name
        /\ \A j \in 1..(i - 1) :
             ~(RefOrder[j].Schema = t.DB /\ RefOrder[j].Name = t.Name)

\* C15: in every returned catalog two tables of one database with the same
\* TotalSize are in the order of their first reference during the assembly.
C15_StableTableSort ==
    (Done /\ mdl) =>
        \A d \in DOMAIN dbs : \A i, j \in DOMAIN dbs[d].Tables :
            (i < j /\ dbs[d].Tables[i].TotalSize = dbs[d].Tables[j].TotalSize)
                => FirstRef(dbs[d].Tables[i]) < FirstRef(dbs[d].Tables[j])

\* A returned catalog with two tables of the same, non-zero TotalSize.
C15_Witness ==
    /\ Done /\ mdl
    /\ \E d \in DOMAIN dbs : \E i \in 1..(Len(dbs[d].Tables) - 1) :
         /\ dbs[d].Tables[i].TotalSize = dbs[d].Tables[i + 1].TotalSize
         /\ dbs[d].Tables[i].TotalSize > 0

\* --------------------------------------------------------------- C16 --
\* The tables of a catalog.
TablesOf(d) == UNION {{d[i].Tables[k] : k \in DOMAIN d[i].Tables} : i \in DOMAIN d}

RECURSIVE SumFileSize(_)
\* The sum of the FileSize of a list of data files.
SumFileSize(files) ==
    IF files = <<>> THEN 0
    ELSE files[1].FileMeta.FileSize + SumFileSize(Tail(files))

\* Every table's TotalSize is the sum of the sizes of its DataFiles.
SizeAccounted == \A t \in TablesOf(dbs) : t.TotalSize = SumFileSize(t.DataFiles)

\* C16: after every step of the load each table's TotalSize is the sum of
\* the FileSize of the data files of its DataFiles list, and no step makes
\* the TotalSize of a table smaller.
C16_SizeAccounting ==
    [][/\ SizeAccounted'
       /\ \A t \in TablesOf(dbs) : \E u \in TablesOf(dbs') :
            u.DB = t.DB /\ u.Name = t.Name /\ u.TotalSize >= t.TotalSize]_vars

\* A returned table with two data files and their two sizes added up.
C16_Witness ==
    /\ Done /\ mdl
    /\ \E t \in TablesOf(dbs) :
         /\ Len(t.DataFiles) >= 2
         /\ t.TotalSize = SumFileSize(t.DataFiles)
         /\ t.TotalSize > t.DataFiles[1].FileMeta.FileSize

\* --------------------------------------------------------------- C17 --
\* Where the data file f is in the catalog: (database, table, position).
PlacesOf(f) ==
    UNION {UNION {{<<d, k, n>> : n \in {m \in DOMAIN dbs[d].Tables[k].DataFiles :
                                          dbs[d].Tables[k].DataFiles[m] = f}} :
                    k \in DOMAIN dbs[d].Tables} : d \in DOMAIN dbs}

\* C17: in every returned catalog each FileInfo of the data-file bucket is
\* exactly once in the DataFiles lists, in the table that carries its routed
\* (schema, table), and the DataFiles lists hold nothing else.
C17_DataFileConservation ==
    (Done /\ mdl) =>
        /\ \A i \in DOMAIN tableDatas :
             /\ Cardinality(PlacesOf(tableDatas[i])) = 1
             /\ \A p \in PlacesOf(tableDatas[i]) :
                  /\ dbs[p[1]].Name = tableDatas[i].Schema
                  /\ dbs[p[1]].Tables[p[2]].DB = tableDatas[i].Schema
                  /\ dbs[p[1]].Tables[p[2]].Name = tableDatas[i].Name
        /\ \A t \in TablesOf(dbs) : \A n \in DOMAIN t.DataFiles :
             \E i \in DOMAIN tableDatas : tableDatas[i] = t.DataFiles[n]

\* A returned catalog with two data files in one table and one in another.
C17_Witness ==
    /\ Done /\ mdl
    /\ Len(tableDatas) >= 3
    /\ \E t, u \in TablesOf(dbs) :
         /\ Len(t.DataFiles) = 2 /\ Len(u.DataFiles) = 1
         /\ <<t.DB, t.Name>> # <<u.DB, u.Name>>

\* --------------------------------------------------------------- C18 --
\* C18: at every point of the assembly no two databases of the catalog have
\* the same name, no two tables of a database have the same name, every
\* entry of dbIndexMap points at the database of its name and every entry of
\* tableIndexMap at the table of its name; the names stay unique in the
\* catalog that is returned.
C18_NameUniqueness ==
    /\ \A d, e \in DOMAIN dbs : dbs[d].Name = dbs[e].Name => d = e
    /\ \A d \in DOMAIN dbs : \A i, j \in DOMAIN dbs[d].Tables :
         /\ dbs[d].Tables[i].DB = dbs[d].Name
         /\ dbs[d].Tables[i].Name = dbs[d].Tables[j].Name => i = j
    /\ DOMAIN dbIndexMap = {dbs[d].Name : d \in DOMAIN dbs}
    /\ \A n \in DOMAIN dbIndexMap : dbs[dbIndexMap[n] + 1].Name = n
    /\ DOMAIN tableIndexMap = {<<t.DB, t.Name>> : t \in TablesOf(dbs)}
    /\ ~Done => \A key \in DOMAIN tableIndexMap :
                  LET ts == dbs[dbIndexMap[key[1]] + 1].Tables
                  IN /\ tableIndexMap[key] + 1 \in DOMAIN ts
                     /\ ts[tableIndexMap[key] + 1].Name = key[2]

\* The assembly has met a table twice (schema file, then data file) and a
\* second database.
C18_Witness ==
    /\ pc = "insertData"
    /\ Len(dbs) >= 2
    /\ \E t \in TablesOf(dbs) :
         t.SchemaFile.FileMeta.Path # 0 /\ Len(t.DataFiles) >= 1

\* --------------------------------------------------------------- C19 --
\* The original database names that routing takes every file away from and
\* no file to, among the names that have a database-schema file.
Subsumed ==
    {name \in {source[i].Schema : i \in ScannedDBs} :
        \A i \in Bucketed :
            RouteTarget(router, source[i].Schema, source[i].Name)[1] # name}

\* C19: once the routing pass has ended without error, no database-schema
\* FileInfo carries the name of a subsumed database, and no database of the
\* catalog has that name.
C19_SubsumedDisappear ==
    (Assembled /\ router # "nil") =>
        \A name \in Subsumed :
            /\ name \notin SchemasOf(dbSchemas)
            /\ \A d \in DOMAIN dbs : dbs[d].Name # name

\* A returned catalog of a load that routed a whole database away.
C19_Witness ==
    /\ Done /\ mdl /\ router # "nil"
    /\ Subsumed # {}
    /\ dbs # <<>>

\* --------------------------------------------------------------- C20 --
\* Every database name a scanned file refers to has exactly one
\* database-schema file.
OneSchemaFilePerDB ==
    \A i \in Bucketed :
        Cardinality({j \in ScannedDBs : source[j].Schema = source[i].Schema}) = 1

\* C20: with one database-schema file per database name, during the routing
\* pass the reference count of every name is the number of FileInfo entries
\* of the four buckets that carry the name.
C20_CountConservation ==
    (OneSchemaFilePerDB /\ pc \in RoutePasses \cup {"routeRemove"}) =>
        \A name \in DOMAIN knownDBNames :
            knownDBNames[name].count =
                CountIn(dbSchemas, name) + CountIn(tableSchemas, name)
                  + CountIn(viewSchemas, name) + CountIn(tableDatas, name)

\* ------------------------------------------------------------- C11 --
\* A second load of the same files, enumerated in any order, has returned its
\* catalog without error after the first one did.
SecondDone == load = 2 /\ pc = "done" /\ mdl /\ err.code = "nil"

\* Where the walk of the current load yields the file of a path.
WalkPos(path) == CHOOSE i \in DOMAIN paths : paths[i] = path

\* The sort keys and the paths of a list of data files, in list order.
KeysOf(files) == [n \in DOMAIN files |-> files[n].FileMeta.SortKey]
PathSetOf(files) == {files[n].FileMeta.Path : n \in DOMAIN files}

\* C11 as stated: for a fixed set of admitted data files, the order of the
\* data files within each table is the same for every order in which the
\* walk enumerates them (the second load orders every table's files as the
\* first load did).
C11_AsStated ==
    SecondDone =>
        \A t \in TablesOf(dbs) : \A u \in TablesOf(first) :
            (u.DB = t.DB /\ u.Name = t.Name) => u.DataFiles = t.DataFiles

\* C11 amended: whatever the enumeration order, a table holds the same data
\* files with the same sequence of sort keys; files of one table with equal
\* sort keys stand in the enumeration order of the load, so the order of a
\* table's data files is independent of the enumeration order when its sort
\* keys are pairwise distinct.
C11_OrderUpToEqualKeys ==
    SecondDone =>
        \A t \in TablesOf(dbs) : \E u \in TablesOf(first) :
            /\ u.DB = t.DB /\ u.Name = t.Name
            /\ PathSetOf(u.DataFiles) = PathSetOf(t.DataFiles)
            /\ KeysOf(u.DataFiles) = KeysOf(t.DataFiles)
            /\ \A i, j \in DOMAIN t.DataFiles :
                 (i < j /\ KeysOf(t.DataFiles)[i] = KeysOf(t.DataFiles)[j]) =>
                    /\ WalkPos(t.DataFiles[i].FileMeta.Path)
                         < WalkPos(t.DataFiles[j].FileMeta.Path)
                    /\ u.DataFiles[i].FileMeta.Path < u.DataFiles[j].FileMeta.Path
            /\ (\A i, j \in DOMAIN t.DataFiles :
                  i # j => KeysOf(t.DataFiles)[i] # KeysOf(t.DataFiles)[j])
               => u.DataFiles = t.DataFiles

\* C11 witness: the second load met two data files of one table, of distinct
\* sort keys, in the opposite order of the first load and in the opposite
\* order of their keys.
C11_Witness ==
    /\ SecondDone
    /\ \E t \in TablesOf(dbs) :
          /\ Len(t.DataFiles) = 2
          /\ t.DataFiles[1].FileMeta.SortKey < t.DataFiles[2].FileMeta.SortKey
          /\ t.DataFiles[1].FileMeta.Path < t.DataFiles[2].FileMeta.Path
          /\ WalkPos(t.DataFiles[1].FileMeta.Path) > WalkPos(t.DataFiles[2].FileMeta.Path)

\* ------------------------------------------------------------- C13 --
\* A GetSchema call has returned.
Returned == pc = "returned"

\* C13: the schema text of a database whose schema FileInfo has an empty path
\* is exactly "CREATE DATABASE IF NOT EXISTS " followed by the escaped
\* database name, whatever the storage holds, and never an error; the schema
\* text of a table whose schema FileInfo has an empty path is an error naming
\* the table, and no DDL text.
C13_DefaultDDL ==
    (Returned /\ meta.SchemaFile.FileMeta.Path = 0) =>
        IF meta.kind = "MDDatabaseMeta"
        THEN /\ ret.text = <<"CREATE DATABASE IF NOT EXISTS ">> \o EscapeIdentifier(meta.Name)
             /\ ret.err = NoDDLError
        ELSE /\ ret.err.code = "schema file is missing"
             /\ ret.err.table = <<meta.DB, meta.Name>>
             /\ ret.text = <<>>

\* C13 witness: the default statement of a database whose name holds a
\* backquote, asked of a storage that holds a schema file with a statement.
C13_Witness ==
    /\ Returned
    /\ meta.kind = "MDDatabaseMeta"
    /\ meta.SchemaFile.FileMeta.Path = 0
    /\ meta.Name = <<BackQuote, "a">>
    /\ store.present /\ store.readable /\ store.text = <<"x">>
    /\ ret.text = <<"CREATE DATABASE IF NOT EXISTS ", BackQuote, BackQuote, BackQuote,
                    "a", BackQuote>>

\* ------------------------------------------------------------- C14 --
\* GetSchema was asked for a recorded schema file that the (working) storage
\* does not hold.
MissingSchemaFile ==
    /\ Returned
    /\ meta.SchemaFile.FileMeta.Path # 0
    /\ ~store.failing /\ ~store.present

\* C14 as stated: for a table meta and for a database meta alike, a recorded
\* schema file that does not exist gives an error naming the missing file,
\* and no fallback statement.
C14_AsStated ==
    MissingSchemaFile =>
        /\ ret.err.code = "schema file doesn't exist"
        /\ ret.err.path = meta.SchemaFile.FileMeta.Path
        /\ ret.text = <<>>

\* C14 amended: a table meta whose recorded schema file does not exist gives
\* an error naming the missing file and the table, and no text; a database
\* meta whose recorded schema file does not exist gives no error: the default
\* CREATE DATABASE statement is returned.
C14_MissingSchemaFile ==
    MissingSchemaFile =>
        IF meta.kind = "MDTableMeta"
        THEN /\ ret.err.code = "schema file doesn't exist"
             /\ ret.err.path = meta.SchemaFile.FileMeta.Path
             /\ ret.err.table = <<meta.DB, meta.Name>>
             /\ ret.text = <<>>
        ELSE /\ ret.err = NoDDLError
             /\ ret.text = <<"CREATE DATABASE IF NOT EXISTS ">> \o EscapeIdentifier(meta.Name)

\* C14 witness: a table meta with a recorded schema file the storage does not
\* hold got the error that names the file.
C14_Witness ==
    /\ MissingSchemaFile
    /\ meta.kind = "MDTableMeta"
    /\ ret.err.path = 1

\* ------------------------------------------------------------- C21 --
\* C21: with a routing table configured, the routing pass is defined for every
\* bucket content the scan can produce, also when a table-schema, view-schema
\* or data file belongs to a database without a database-schema file in the
\* buckets: the load ends with a catalog or with a reported error, never by
\* dereferencing a missing reference-count entry.
C21_RoutingDefined ==
    (Done /\ router # "nil") =>
        /\ err.code # "panic"
        /\ mdl \/ err.code # "nil"
=============================================================================
